---- MODULE Spec2Model ----
(***************************************************************************)
(* Model of spirit/__main__.py: the waveform generators, the 16-bit PCM    *)
(* encoder save_wav, the presets that write files, and main.               *)
(*                                                                         *)
(* Numbers.  A duration is a rational <<num, den>> of seconds (den > 0).   *)
(* A frequency is a number of hundredths of Hz (43200 is 432 Hz, 783 is    *)
(* 7.83 Hz).  An amplitude is a number of tenths (8 is the default 0.8).   *)
(* A float sample handed to save_wav directly is a numerator k standing    *)
(* for k / SampleDen.  With dyadic                                         *)
(* denominators every product the code forms on these inputs is exact in   *)
(* binary floating point, so the rational arithmetic below is the float    *)
(* arithmetic of the code.                                                 *)
(*                                                                         *)
(* Buffers.  A numpy array is a descriptor with its length n and the       *)
(* expression that produced it; At(buf, i) is element i.  An element that  *)
(* goes through np.sin is a term naming the float expression the code      *)
(* evaluates (same term, same float).                                      *)
(***************************************************************************)
EXTENDS Integers, Sequences, FiniteSets, TLC

VARIABLES pc, call, ret, files, args

vars == <<pc, call, ret, files, args>>

----------------------------------------------------------------------------
(* Program constants *)

SAMPLE_RATE == 44100

PCM_SCALE == 32767

OM_FADE_TENTHS == 5

CHAKRA_FADE_SECONDS == 2

segment_duration == 5

DEFAULT_AMPLITUDE == 8

OM_BASE == 13610

(* Bounds of the input sets *)

SampleDen == 8

MaxSampleNum == 24

GenDurDen == 1024

MaxGenDurNum == 3

MaxFreq == 2

MaxBeat == 1

OmDurDen == 8

MaxOmDurNum == 9

MaxCompareDur == 35

MaxChakraDur == 5

MaxMainDur == 2

ProbeStride == 9973

----------------------------------------------------------------------------
(* Results of a call: a returned value or a raised exception *)

Ok(v) == [status |-> "ok", value |-> v]

Err(e) == [status |-> "error", error |-> e]

None == [kind |-> "none", n |-> 0]

(* Python int() of the rational a / b, b > 0: truncation toward zero *)
int(a, b) == IF a >= 0 THEN a \div b ELSE -((-a) \div b)

Min(a, b) == IF a <= b THEN a ELSE b

Max(a, b) == IF a >= b THEN a ELSE b

(* int(SAMPLE_RATE * duration), the sample count every generator asks for *)
num_samples(duration) == int(SAMPLE_RATE * duration[1], duration[2])

(* np.linspace(0, stop, num, False): raises on a negative num; element i   *)
(* is i * (stop / num).                                                    *)
linspace_open(stop, num) ==
    IF num < 0 THEN Err("ValueError")
    ELSE Ok([kind |-> "grid", n |-> num, stop |-> stop])

(* np.linspace(first, last, num) for the ramps 0 -> 1 and 1 -> 0, num > 1: *)
(* element j is first + j * (last - first) / (num - 1), kept as the         *)
(* rational <<numerator, num - 1>>.                                        *)
ramp(first, last, num) == [kind |-> "ramp", n |-> num, first |-> first, last |-> last]

RampAt(r, j) == <<r.first * (r.n - 1) + j * (r.last - r.first), r.n - 1>>

(* The bounds [lo, hi) of the Python slices a[:k] and a[-k:] (k > 0) of an *)
(* array of length n.                                                      *)
head_slice(n, k) == <<0, Min(k, n)>>

tail_slice(n, k) == <<Max(n - k, 0), n>>

(* a[lo:hi] = values: numpy raises when the shapes differ *)
set_slice(a, sl, values) ==
    IF sl[2] - sl[1] # values.n THEN Err("ValueError")
    ELSE Ok([kind |-> "setslice", n |-> a.n, of |-> a, lo |-> sl[1], hi |-> sl[2],
             values |-> values])

(* a[lo:hi] *= values: numpy raises when the shapes differ *)
mul_slice(a, sl, values) ==
    IF sl[2] - sl[1] # values.n THEN Err("ValueError")
    ELSE Ok([kind |-> "mulslice", n |-> a.n, of |-> a, lo |-> sl[1], hi |-> sl[2],
             values |-> values])

----------------------------------------------------------------------------
(* The waveform generators *)

(* generate_sine_wave(frequency, duration, amplitude) *)
generate_sine_wave(frequency, duration, amplitude) ==
    LET t == linspace_open(duration, num_samples(duration)) IN
    IF t.status = "error" THEN t
    ELSE Ok([kind |-> "sine", n |-> t.value.n, t |-> t.value,
             frequency |-> frequency, amplitude |-> amplitude])

(* np.column_stack((left_channel, right_channel)) *)
column_stack(left_channel, right_channel) ==
    [kind |-> "column_stack", n |-> left_channel.n,
     left |-> left_channel, right |-> right_channel]

(* Variant of generate_binaural_beat with the two columns exchanged *)
generate_binaural_beat_swapped(base_freq, beat_freq, duration, amplitude) ==
    LET t == linspace_open(duration, num_samples(duration)) IN
    IF t.status = "error" THEN t
    ELSE LET left_channel == [kind |-> "sine", n |-> t.value.n, t |-> t.value,
                              frequency |-> base_freq, amplitude |-> amplitude]
             right_channel == [kind |-> "sine", n |-> t.value.n, t |-> t.value,
                               frequency |-> base_freq + beat_freq,
                               amplitude |-> amplitude]
         IN Ok(column_stack(right_channel, left_channel))

(* generate_binaural_beat(base_freq, beat_freq, duration, amplitude) *)
generate_binaural_beat(base_freq, beat_freq, duration, amplitude) ==
    LET t == linspace_open(duration, num_samples(duration)) IN
    IF t.status = "error" THEN t
    ELSE LET left_freq == base_freq
             right_freq == base_freq + beat_freq
             left_channel == [kind |-> "sine", n |-> t.value.n, t |-> t.value,
                              frequency |-> left_freq, amplitude |-> amplitude]
             right_channel == [kind |-> "sine", n |-> t.value.n, t |-> t.value,
                               frequency |-> right_freq, amplitude |-> amplitude]
         IN Ok(column_stack(left_channel, right_channel))

(* generate_isochronic_tone(frequency, pulse_freq, duration, amplitude) *)
generate_isochronic_tone(frequency, pulse_freq, duration, amplitude) ==
    LET t == linspace_open(duration, num_samples(duration)) IN
    IF t.status = "error" THEN t
    ELSE Ok([kind |-> "isochronic", n |-> t.value.n, t |-> t.value,
             frequency |-> frequency, pulse_freq |-> pulse_freq,
             amplitude |-> amplitude])

(* generate_frequency_sweep(start_freq, end_freq, duration, amplitude) *)
generate_frequency_sweep(start_freq, end_freq, duration, amplitude) ==
    LET t == linspace_open(duration, num_samples(duration)) IN
    IF t.status = "error" THEN t
    ELSE Ok([kind |-> "sweep", n |-> t.value.n, t |-> t.value,
             start_freq |-> start_freq, end_freq |-> end_freq,
             duration |-> duration, amplitude |-> amplitude])

(* generate_layered_frequencies(frequencies, duration, amplitude): the     *)
(* division by len(frequencies) is a numpy division, which does not raise  *)
(* on an empty list.                                                       *)
generate_layered_frequencies(frequencies, duration, amplitude) ==
    LET t == linspace_open(duration, num_samples(duration)) IN
    IF t.status = "error" THEN t
    ELSE Ok([kind |-> "layered", n |-> t.value.n, t |-> t.value,
             frequencies |-> frequencies, amplitude |-> amplitude])

(* generate_om_tone(duration, amplitude): the envelope is written in       *)
(* place, fade-in first, fade-out second.                                  *)
generate_om_tone(duration, amplitude) ==
    LET t == linspace_open(duration, num_samples(duration)) IN
    IF t.status = "error" THEN t
    ELSE LET n == t.value.n
             ones_like == [kind |-> "ones", n |-> n]
             fade_samples == int(SAMPLE_RATE * OM_FADE_TENTHS, 10)
             fade_in == set_slice(ones_like, head_slice(n, fade_samples),
                                  ramp(0, 1, fade_samples))
         IN IF fade_in.status = "error" THEN fade_in
            ELSE LET fade_out == set_slice(fade_in.value, tail_slice(n, fade_samples),
                                           ramp(1, 0, fade_samples))
                 IN IF fade_out.status = "error" THEN fade_out
                    ELSE Ok([kind |-> "om", n |-> n, t |-> t.value,
                             amplitude |-> amplitude, envelope |-> fade_out.value])

RECURSIVE SumLen(_)
SumLen(parts) == IF parts = <<>> THEN 0 ELSE Head(parts).n + SumLen(Tail(parts))

(* np.concatenate(parts): raises on an empty list *)
concatenate(parts) ==
    IF Len(parts) = 0 THEN Err("ValueError")
    ELSE Ok([kind |-> "concat", n |-> SumLen(parts), parts |-> parts])

----------------------------------------------------------------------------
(* The encoder *)

(* Variant of scale_sample that scales by 2^15 instead of 32767 *)
scale_sample_by_32768(k) == <<k * 2^15, SampleDen>>

(* audio_data * 32767 for the sample k / SampleDen, as a rational *)
scale_sample(k) == <<k * PCM_SCALE, SampleDen>>

Wrap16(x) == ((x + 2^15) % 2^16) - 2^15

(* Variant of astype_int16 that saturates instead of keeping the low bits *)
astype_int16_saturating(x) == Max(-(2^15), Min(2^15 - 1, int(x[1], x[2])))

(* .astype(np.int16) of the float x[1] / x[2] with |x| < 2^31: the C cast  *)
(* truncates toward zero and keeps the low 16 bits.                        *)
astype_int16(x) == Wrap16(int(x[1], x[2]))

----------------------------------------------------------------------------
(* Element i (from 0) of a buffer *)

TimeAt(t, i) == <<"t", i, t.stop, t.n>>

RECURSIVE At(_, _)
RECURSIVE ConcatAt(_, _)
ConcatAt(parts, i) ==
    IF i < Head(parts).n THEN At(Head(parts), i)
    ELSE ConcatAt(Tail(parts), i - Head(parts).n)

At(buf, i) ==
    CASE buf.kind = "sine" ->
           <<"mul", buf.amplitude, <<"sin", buf.frequency, TimeAt(buf.t, i)>>>>
      [] buf.kind = "column_stack" -> <<At(buf.left, i), At(buf.right, i)>>
      [] buf.kind = "isochronic" ->
           <<"mul", buf.amplitude, <<"sin", buf.frequency, TimeAt(buf.t, i)>>,
             <<"clip", <<"pulse", buf.pulse_freq, TimeAt(buf.t, i)>>>>>>
      [] buf.kind = "sweep" ->
           <<"mul", buf.amplitude,
             <<"chirp", buf.start_freq, buf.end_freq, TimeAt(buf.t, i), buf.duration>>>>
      [] buf.kind = "layered" ->
           <<"div", <<"mul", buf.amplitude,
                      [j \in 1..Len(buf.frequencies) |->
                          <<"sin", buf.frequencies[j], TimeAt(buf.t, i)>>]>>,
             Len(buf.frequencies)>>
      [] buf.kind = "om" ->
           <<"div", <<"mul", buf.amplitude, <<"om", OM_BASE, TimeAt(buf.t, i)>>,
                      At(buf.envelope, i)>>, <<7, 4>>>>
      [] buf.kind = "ones" -> <<1, 1>>
      [] buf.kind = "setslice" ->
           IF buf.lo <= i /\ i < buf.hi THEN RampAt(buf.values, i - buf.lo)
           ELSE At(buf.of, i)
      [] buf.kind = "mulslice" ->
           IF buf.lo <= i /\ i < buf.hi
           THEN <<"imul", At(buf.of, i), RampAt(buf.values, i - buf.lo)>>
           ELSE At(buf.of, i)
      [] buf.kind = "concat" -> ConcatAt(buf.parts, i)
      [] buf.kind = "raw" -> buf.data[i + 1]
      [] buf.kind = "int16" -> <<"int16", At(buf.of, i)>>

----------------------------------------------------------------------------
(* Files and save_wav *)

(* (audio_data * 32767).astype(np.int16), element by element.  A buffer    *)
(* given by its samples ("raw": mono samples, or rows <<left, right>>) is  *)
(* encoded here; a generated buffer keeps its expression under the cast.   *)
to_int16(audio_data) ==
    IF audio_data.kind = "raw"
    THEN [kind |-> "raw", n |-> audio_data.n, stereo |-> audio_data.stereo,
          data |-> [j \in 1..audio_data.n |->
                      IF audio_data.stereo
                      THEN <<astype_int16(scale_sample(audio_data.data[j][1])),
                             astype_int16(scale_sample(audio_data.data[j][2]))>>
                      ELSE astype_int16(scale_sample(audio_data.data[j]))]]
    ELSE [kind |-> "int16", n |-> audio_data.n, of |-> audio_data]

(* wavfile.write(filename, SAMPLE_RATE, audio_int) *)
wavfile_write(fs, filename, rate, audio_int) ==
    (filename :> [rate |-> rate, data |-> audio_int]) @@ fs

(* save_wav(filename, audio_data, stereo): both branches are the same code *)
save_wav(fs, filename, audio_data, stereo) ==
    LET audio_int == IF stereo THEN to_int16(audio_data) ELSE to_int16(audio_data)
    IN wavfile_write(fs, filename, SAMPLE_RATE, audio_int)

----------------------------------------------------------------------------
(* The presets.  A preset returns the files it has written and how it      *)
(* ended (an exception leaves the files written before it).                *)

Outcome(r, fs) == [ret |-> r, files |-> fs]

(* output_dir / name *)
path_join(output_dir, name) == output_dir \o "/" \o name

(* SOLFEGGIO_FREQUENCIES in order, each with the file name the f-string    *)
(* f"solfeggio_{freq}hz.wav" gives it.                                     *)
SOLFEGGIO_FREQUENCIES ==
    << <<17400, "solfeggio_174hz.wav">>, <<28500, "solfeggio_285hz.wav">>,
       <<39600, "solfeggio_396hz.wav">>, <<41700, "solfeggio_417hz.wav">>,
       <<52800, "solfeggio_528hz.wav">>, <<63900, "solfeggio_639hz.wav">>,
       <<74100, "solfeggio_741hz.wav">>, <<85200, "solfeggio_852hz.wav">>,
       <<96300, "solfeggio_963hz.wav">> >>

(* ANGEL_FREQUENCIES in order, with the names f"angel_{freq}hz.wav" *)
ANGEL_FREQUENCIES ==
    << <<11100, "angel_111hz.wav">>, <<22200, "angel_222hz.wav">>,
       <<33300, "angel_333hz.wav">>, <<44400, "angel_444hz.wav">>,
       <<55500, "angel_555hz.wav">>, <<66600, "angel_666hz.wav">>,
       <<77700, "angel_777hz.wav">>, <<88800, "angel_888hz.wav">>,
       <<99900, "angel_999hz.wav">> >>

(* BRAINWAVE_STATES in order: low, high, and the file name                 *)
(* f"binaural_{state}_{target_freq}hz.wav" for target_freq = (low+high)/2. *)
BRAINWAVE_STATES ==
    << <<50, 400, "binaural_delta_2.25hz.wav">>,
       <<400, 800, "binaural_theta_6.0hz.wav">>,
       <<800, 1400, "binaural_alpha_11.0hz.wav">>,
       <<1400, 3000, "binaural_beta_22.0hz.wav">>,
       <<3000, 10000, "binaural_gamma_65.0hz.wav">> >>

(* The loop shared in shape by generate_all_solfeggio and                  *)
(* generate_all_angel_frequencies, from entry k on: a sine wave per entry, *)
(* saved under its name.                                                   *)
RECURSIVE sine_files_loop(_, _, _, _, _)
sine_files_loop(table, k, fs, output_dir, duration) ==
    IF k > Len(table) THEN Outcome(Ok(None), fs)
    ELSE LET wave == generate_sine_wave(table[k][1], duration, DEFAULT_AMPLITUDE)
         IN IF wave.status = "error" THEN Outcome(wave, fs)
            ELSE sine_files_loop(table, k + 1,
                                 save_wav(fs, path_join(output_dir, table[k][2]),
                                          wave.value, FALSE),
                                 output_dir, duration)

(* generate_all_solfeggio(output_dir, duration) *)
generate_all_solfeggio(fs, output_dir, duration) ==
    sine_files_loop(SOLFEGGIO_FREQUENCIES, 1, fs, output_dir, duration)

(* generate_all_angel_frequencies(output_dir, duration) *)
generate_all_angel_frequencies(fs, output_dir, duration) ==
    sine_files_loop(ANGEL_FREQUENCIES, 1, fs, output_dir, duration)

(* The loop of generate_binaural_presets from entry k on *)
RECURSIVE binaural_presets_loop(_, _, _, _, _)
binaural_presets_loop(k, fs, output_dir, duration, base_freq) ==
    IF k > Len(BRAINWAVE_STATES) THEN Outcome(Ok(None), fs)
    ELSE LET target_freq == (BRAINWAVE_STATES[k][1] + BRAINWAVE_STATES[k][2]) \div 2
             stereo == generate_binaural_beat(base_freq, target_freq, duration,
                                              DEFAULT_AMPLITUDE)
         IN IF stereo.status = "error" THEN Outcome(stereo, fs)
            ELSE binaural_presets_loop(
                     k + 1,
                     save_wav(fs, path_join(output_dir, BRAINWAVE_STATES[k][3]),
                              stereo.value, TRUE),
                     output_dir, duration, base_freq)

(* generate_binaural_presets(output_dir, duration, base_freq) *)
generate_binaural_presets(fs, output_dir, duration, base_freq) ==
    binaural_presets_loop(1, fs, output_dir, duration, base_freq)

(* generate_schumann_resonance(output_dir, duration) *)
generate_schumann_resonance(fs, output_dir, duration) ==
    LET wave == generate_isochronic_tone(20000, 783, duration, DEFAULT_AMPLITUDE)
    IN IF wave.status = "error" THEN Outcome(wave, fs)
       ELSE LET fs1 == save_wav(fs, path_join(output_dir, "schumann_7.83hz_isochronic.wav"),
                                wave.value, FALSE)
                stereo == generate_binaural_beat(20000, 783, duration, DEFAULT_AMPLITUDE)
            IN IF stereo.status = "error" THEN Outcome(stereo, fs1)
               ELSE Outcome(Ok(None),
                            save_wav(fs1,
                                     path_join(output_dir, "schumann_7.83hz_binaural.wav"),
                                     stereo.value, TRUE))

(* generate_custom_frequency(frequency, duration, output_file, mode): any  *)
(* other mode writes nothing.                                              *)
generate_custom_frequency(fs, frequency, duration, output_file, mode) ==
    IF mode = "sine"
    THEN LET wave == generate_sine_wave(frequency, duration, DEFAULT_AMPLITUDE)
         IN IF wave.status = "error" THEN Outcome(wave, fs)
            ELSE Outcome(Ok(None), save_wav(fs, output_file, wave.value, FALSE))
    ELSE IF mode = "binaural"
    THEN LET stereo == generate_binaural_beat(20000, frequency, duration, DEFAULT_AMPLITUDE)
         IN IF stereo.status = "error" THEN Outcome(stereo, fs)
            ELSE Outcome(Ok(None), save_wav(fs, output_file, stereo.value, TRUE))
    ELSE IF mode = "isochronic"
    THEN LET wave == generate_isochronic_tone(20000, frequency, duration,
                                              DEFAULT_AMPLITUDE)
         IN IF wave.status = "error" THEN Outcome(wave, fs)
            ELSE Outcome(Ok(None), save_wav(fs, output_file, wave.value, FALSE))
    ELSE Outcome(Ok(None), fs)

(* Variant of comparison_rounds: one round per segment_duration seconds *)
comparison_rounds_per_segment(duration) == duration \div segment_duration

(* range(duration // (segment_duration * 2)): the number of loop rounds *)
comparison_rounds(duration) == duration \div (segment_duration * 2)

(* The list built by the loop of generate_432_vs_440: count rounds, each   *)
(* appending a 432 Hz segment and then a 440 Hz segment.                   *)
comparison_segments(count) ==
    [j \in 1..(2 * Max(count, 0)) |->
        generate_sine_wave(IF j % 2 = 1 THEN 43200 ELSE 44000,
                           <<segment_duration, 1>>, DEFAULT_AMPLITUDE).value]

(* generate_432_vs_440(output_dir, duration), duration an integer *)
generate_432_vs_440(fs, output_dir, duration) ==
    LET wave_432 == generate_sine_wave(43200, <<duration, 1>>, DEFAULT_AMPLITUDE)
        wave_440 == generate_sine_wave(44000, <<duration, 1>>, DEFAULT_AMPLITUDE)
    IN IF wave_432.status = "error" THEN Outcome(wave_432, fs)
       ELSE IF wave_440.status = "error" THEN Outcome(wave_440, fs)
       ELSE LET fs1 == save_wav(fs, path_join(output_dir, "tuning_432hz_natural.wav"),
                                wave_432.value, FALSE)
                fs2 == save_wav(fs1, path_join(output_dir, "tuning_440hz_standard.wav"),
                                wave_440.value, FALSE)
                segments == comparison_segments(comparison_rounds(duration))
                comparison == concatenate(segments)
            IN IF comparison.status = "error" THEN Outcome(comparison, fs2)
               ELSE Outcome(Ok(None),
                            save_wav(fs2,
                                     path_join(output_dir, "tuning_432_440_comparison.wav"),
                                     comparison.value, FALSE))

(* The chakras list of generate_chakra_meditation, with the file name the  *)
(* f-string f"chakra_{name}_{freq}hz.wav" gives each entry.                *)
chakras ==
    << <<39600, "chakra_root_396hz.wav">>,
       <<41700, "chakra_sacral_417hz.wav">>,
       <<52800, "chakra_solar_plexus_528hz.wav">>,
       <<63900, "chakra_heart_639hz.wav">>,
       <<74100, "chakra_throat_741hz.wav">>,
       <<85200, "chakra_third_eye_852hz.wav">>,
       <<96300, "chakra_crown_963hz.wav">> >>

(* One chakra's wave: the sine wave with both fades multiplied in place *)
chakra_wave(freq, duration_per_chakra) ==
    LET wave == generate_sine_wave(freq, <<duration_per_chakra, 1>>, DEFAULT_AMPLITUDE)
    IN IF wave.status = "error" THEN wave
       ELSE LET n == wave.value.n
                fade_samples == int(SAMPLE_RATE * CHAKRA_FADE_SECONDS, 1)
                fade_in == mul_slice(wave.value, head_slice(n, fade_samples),
                                     ramp(0, 1, fade_samples))
            IN IF fade_in.status = "error" THEN fade_in
               ELSE mul_slice(fade_in.value, tail_slice(n, fade_samples),
                              ramp(1, 0, fade_samples))

(* Variant of chakra_loop that puts each wave at the front of the list *)
RECURSIVE chakra_loop_prepend(_, _, _, _, _)
chakra_loop_prepend(k, fs, full_sequence, output_dir, duration_per_chakra) ==
    IF k > Len(chakras)
    THEN LET full_meditation == concatenate(full_sequence)
         IN IF full_meditation.status = "error" THEN Outcome(full_meditation, fs)
            ELSE Outcome(Ok(None),
                         save_wav(fs, path_join(output_dir, "chakra_full_meditation.wav"),
                                  full_meditation.value, FALSE))
    ELSE LET wave == chakra_wave(chakras[k][1], duration_per_chakra)
         IN IF wave.status = "error" THEN Outcome(wave, fs)
            ELSE chakra_loop_prepend(
                     k + 1,
                     save_wav(fs, path_join(output_dir, chakras[k][2]), wave.value, FALSE),
                     <<wave.value>> \o full_sequence,
                     output_dir, duration_per_chakra)

(* The loop of generate_chakra_meditation from entry k on, then the final  *)
(* concatenation and save.                                                 *)
RECURSIVE chakra_loop(_, _, _, _, _)
chakra_loop(k, fs, full_sequence, output_dir, duration_per_chakra) ==
    IF k > Len(chakras)
    THEN LET full_meditation == concatenate(full_sequence)
         IN IF full_meditation.status = "error" THEN Outcome(full_meditation, fs)
            ELSE Outcome(Ok(None),
                         save_wav(fs, path_join(output_dir, "chakra_full_meditation.wav"),
                                  full_meditation.value, FALSE))
    ELSE LET wave == chakra_wave(chakras[k][1], duration_per_chakra)
         IN IF wave.status = "error" THEN Outcome(wave, fs)
            ELSE chakra_loop(
                     k + 1,
                     save_wav(fs, path_join(output_dir, chakras[k][2]), wave.value, FALSE),
                     Append(full_sequence, wave.value),
                     output_dir, duration_per_chakra)

(* generate_chakra_meditation(output_dir, duration_per_chakra) *)
generate_chakra_meditation(fs, output_dir, duration_per_chakra) ==
    chakra_loop(1, fs, <<>>, output_dir, duration_per_chakra)

----------------------------------------------------------------------------
(* main: the statements after argument parsing, in program order.  With    *)
(* --all the seven presets run unconditionally; otherwise each statement   *)
(* runs when its option was given.                                         *)

ALL_ORDER == <<"solfeggio", "angels", "binaural", "schumann", "tuning", "chakras", "om">>

OPTION_ORDER ==
    <<"solfeggio", "binaural", "angels", "schumann", "chakras", "tuning", "om", "custom">>

(* wave = generate_om_tone(args.duration); save_wav(.../"om_136.1hz.wav")  *)
main_om(fs, output_dir, duration) ==
    LET wave == generate_om_tone(<<duration, 1>>, DEFAULT_AMPLITUDE)
    IN IF wave.status = "error" THEN Outcome(wave, fs)
       ELSE Outcome(Ok(None),
                    save_wav(fs, path_join(output_dir, "om_136.1hz.wav"), wave.value, FALSE))

(* The call a preset statement of main makes; capped is TRUE under --all,  *)
(* where the binaural and Schumann presets get min(args.duration, 300).    *)
main_statement(name, output_dir, duration, capped) ==
    CASE name = "solfeggio" ->
           [op |-> "generate_all_solfeggio",
            args |-> <<path_join(output_dir, "solfeggio"), <<duration, 1>> >>]
      [] name = "angels" ->
           [op |-> "generate_all_angel_frequencies",
            args |-> <<path_join(output_dir, "angels"), <<duration, 1>> >>]
      [] name = "binaural" ->
           [op |-> "generate_binaural_presets",
            args |-> <<path_join(output_dir, "binaural"),
                       <<IF capped THEN Min(duration, 300) ELSE duration, 1>>, 20000>>]
      [] name = "schumann" ->
           [op |-> "generate_schumann_resonance",
            args |-> <<path_join(output_dir, "schumann"),
                       <<IF capped THEN Min(duration, 300) ELSE duration, 1>> >>]
      [] name = "tuning" ->
           [op |-> "generate_432_vs_440", args |-> <<path_join(output_dir, "tuning"), 30>>]
      [] name = "chakras" ->
           [op |-> "generate_chakra_meditation",
            args |-> <<path_join(output_dir, "chakras"), duration>>]
      [] name = "om" -> [op |-> "main_om", args |-> <<output_dir, duration>>]

(* The call of "if args.custom:"; custom is <<frequency, str(frequency)>>  *)
main_custom(output_dir, duration, custom, mode) ==
    [op |-> "generate_custom_frequency",
     args |-> <<custom[1], <<duration, 1>>,
                path_join(output_dir, "custom_" \o custom[2] \o "hz_" \o mode \o ".wav"),
                mode>>]

(* The outcome of a call made by main *)
run(c, fs) ==
    CASE c.op = "generate_all_solfeggio" -> generate_all_solfeggio(fs, c.args[1], c.args[2])
      [] c.op = "generate_all_angel_frequencies" ->
           generate_all_angel_frequencies(fs, c.args[1], c.args[2])
      [] c.op = "generate_binaural_presets" ->
           generate_binaural_presets(fs, c.args[1], c.args[2], c.args[3])
      [] c.op = "generate_schumann_resonance" ->
           generate_schumann_resonance(fs, c.args[1], c.args[2])
      [] c.op = "generate_432_vs_440" -> generate_432_vs_440(fs, c.args[1], c.args[2])
      [] c.op = "generate_chakra_meditation" ->
           generate_chakra_meditation(fs, c.args[1], c.args[2])
      [] c.op = "main_om" -> main_om(fs, c.args[1], c.args[2])
      [] c.op = "generate_custom_frequency" ->
           generate_custom_frequency(fs, c.args[1], c.args[2], c.args[3], c.args[4])

----------------------------------------------------------------------------
(* Inputs *)

Frequencies == {100 * k : k \in -1..MaxFreq}

BeatFreqs == {100 * k : k \in -1..MaxBeat}

Amplitudes == {5, DEFAULT_AMPLITUDE}

(* Durations of a few thousandths of a second, zero, negative, and one     *)
(* negative duration shorter than a sample period.                         *)
GenDurations == {<<k, GenDurDen>> : k \in -1..MaxGenDurNum} \cup {<<-1, 2^16>>}

OmDurations == {<<k, OmDurDen>> : k \in -1..MaxOmDurNum}

FrequencyLists ==
    {<<>>} \cup {<<f>> : f \in Frequencies}
           \cup {<<f, g>> : f \in Frequencies, g \in Frequencies}

SampleNums == -MaxSampleNum..MaxSampleNum

RawMono ==
    {[kind |-> "raw", n |-> 0, stereo |-> FALSE, data |-> <<>>]}
    \cup {[kind |-> "raw", n |-> 1, stereo |-> FALSE, data |-> <<k>>] : k \in SampleNums}

RawStereo ==
    {[kind |-> "raw", n |-> 1, stereo |-> TRUE, data |-> << <<l, r>> >>] :
        l \in SampleNums, r \in SampleNums}

(* --custom values (type=float) with their str(): 0.0, 7.83 and 528.0 *)
CustomValues == {<<0, "0.0">>, <<783, "7.83">>, <<52800, "528.0">>}

Modes == {"sine", "binaural", "isochronic"}

(* --duration values of main (type=int) *)
MainDurations == -1..MaxMainDur

(* The default of --output, and the directory given to a preset called     *)
(* directly.                                                               *)
OUTPUT == "output"

OUT_DIR == "out"

----------------------------------------------------------------------------
(* The state machine.  A run is either one direct call of a library        *)
(* function ("ready" -> "returned") or a run of main ("ready" -> "main"    *)
(* -> ... -> "main_done", or "raised" when a statement raises).  call and  *)
(* ret are the last call made and how it ended; files is the directory.    *)

NoArgs == [all |-> FALSE, duration |-> 0, step |-> 0]

Init ==
    /\ pc = "ready"
    /\ call = [op |-> "none", args |-> <<>>]
    /\ ret = Ok(None)
    /\ files = <<>>
    /\ args = NoArgs

Return(op, a, r, fs) ==
    /\ pc' = "returned"
    /\ call' = [op |-> op, args |-> a]
    /\ ret' = r
    /\ files' = fs
    /\ args' = args

GenerateSineWave ==
    /\ pc = "ready"
    /\ \E frequency \in Frequencies, duration \in GenDurations, amplitude \in Amplitudes :
           Return("generate_sine_wave", <<frequency, duration, amplitude>>,
                  generate_sine_wave(frequency, duration, amplitude), files)

GenerateBinauralBeat ==
    /\ pc = "ready"
    /\ \E base_freq \in Frequencies, beat_freq \in BeatFreqs,
          duration \in GenDurations, amplitude \in Amplitudes :
           Return("generate_binaural_beat", <<base_freq, beat_freq, duration, amplitude>>,
                  generate_binaural_beat(base_freq, beat_freq, duration, amplitude), files)

GenerateIsochronicTone ==
    /\ pc = "ready"
    /\ \E frequency \in Frequencies, pulse_freq \in BeatFreqs,
          duration \in GenDurations, amplitude \in Amplitudes :
           Return("generate_isochronic_tone", <<frequency, pulse_freq, duration, amplitude>>,
                  generate_isochronic_tone(frequency, pulse_freq, duration, amplitude), files)

GenerateFrequencySweep ==
    /\ pc = "ready"
    /\ \E start_freq \in Frequencies, end_freq \in Frequencies,
          duration \in GenDurations, amplitude \in Amplitudes :
           Return("generate_frequency_sweep", <<start_freq, end_freq, duration, amplitude>>,
                  generate_frequency_sweep(start_freq, end_freq, duration, amplitude), files)

GenerateLayeredFrequencies ==
    /\ pc = "ready"
    /\ \E frequencies \in FrequencyLists, duration \in GenDurations, amplitude \in Amplitudes :
           Return("generate_layered_frequencies", <<frequencies, duration, amplitude>>,
                  generate_layered_frequencies(frequencies, duration, amplitude), files)

GenerateOmTone ==
    /\ pc = "ready"
    /\ \E duration \in OmDurations \cup GenDurations, amplitude \in Amplitudes :
           Return("generate_om_tone", <<duration, amplitude>>,
                  generate_om_tone(duration, amplitude), files)

SaveWavCall(audio_data) ==
    Return("save_wav", <<"out.wav", audio_data, audio_data.stereo>>, Ok(None),
           save_wav(files, "out.wav", audio_data, audio_data.stereo))

SaveWav ==
    /\ pc = "ready"
    /\ \/ \E audio_data \in RawMono : SaveWavCall(audio_data)
       \/ \E audio_data \in RawStereo : SaveWavCall(audio_data)

GenerateAllSolfeggio ==
    /\ pc = "ready"
    /\ \E duration \in GenDurations :
           LET out == generate_all_solfeggio(files, OUT_DIR, duration)
           IN Return("generate_all_solfeggio", <<OUT_DIR, duration>>, out.ret, out.files)

GenerateAllAngelFrequencies ==
    /\ pc = "ready"
    /\ \E duration \in GenDurations :
           LET out == generate_all_angel_frequencies(files, OUT_DIR, duration)
           IN Return("generate_all_angel_frequencies", <<OUT_DIR, duration>>,
                     out.ret, out.files)

GenerateBinauralPresets ==
    /\ pc = "ready"
    /\ \E duration \in GenDurations, base_freq \in Frequencies \cup {20000} :
           LET out == generate_binaural_presets(files, OUT_DIR, duration, base_freq)
           IN Return("generate_binaural_presets", <<OUT_DIR, duration, base_freq>>,
                     out.ret, out.files)

GenerateSchumannResonance ==
    /\ pc = "ready"
    /\ \E duration \in GenDurations :
           LET out == generate_schumann_resonance(files, OUT_DIR, duration)
           IN Return("generate_schumann_resonance", <<OUT_DIR, duration>>,
                     out.ret, out.files)

Generate432vs440 ==
    /\ pc = "ready"
    /\ \E duration \in -1..MaxCompareDur :
           LET out == generate_432_vs_440(files, OUT_DIR, duration)
           IN Return("generate_432_vs_440", <<OUT_DIR, duration>>, out.ret, out.files)

GenerateChakraMeditation ==
    /\ pc = "ready"
    /\ \E duration_per_chakra \in -1..MaxChakraDur :
           LET out == generate_chakra_meditation(files, OUT_DIR, duration_per_chakra)
           IN Return("generate_chakra_meditation", <<OUT_DIR, duration_per_chakra>>,
                     out.ret, out.files)

GenerateCustomFrequency ==
    /\ pc = "ready"
    /\ \E frequency \in Frequencies, duration \in GenDurations,
          mode \in Modes \cup {"sweep"} :
           LET out == generate_custom_frequency(files, frequency, duration,
                                                "custom.wav", mode)
           IN Return("generate_custom_frequency",
                     <<frequency, duration, "custom.wav", mode>>, out.ret, out.files)

(* main --list: prints the tables and returns *)
MainList ==
    /\ pc = "ready"
    /\ pc' = "main_done"
    /\ call' = [op |-> "main", args |-> <<"--list">>]
    /\ UNCHANGED <<ret, files, args>>

(* main after parse_args, without --list *)
MainStart ==
    /\ pc = "ready"
    /\ \E all \in BOOLEAN, duration \in MainDurations :
           args' = [all |-> all, duration |-> duration, step |-> 1]
    /\ pc' = "main"
    /\ call' = [op |-> "main", args |-> <<>>]
    /\ UNCHANGED <<ret, files>>

(* A statement of main makes its call: an exception ends the process *)
MainRan(c) ==
    LET out == run(c, files)
    IN /\ call' = c
       /\ ret' = out.ret
       /\ files' = out.files
       /\ pc' = IF out.ret.status = "error" THEN "raised" ELSE "main"
       /\ args' = [args EXCEPT !.step = @ + 1]

(* The next preset of the --all branch *)
MainAllStep ==
    /\ pc = "main" /\ args.all /\ args.step <= Len(ALL_ORDER)
    /\ MainRan(main_statement(ALL_ORDER[args.step], OUTPUT, args.duration, TRUE))

(* The next "if args.<option>:" statement, its condition true: the option  *)
(* was given, and --custom is not 0.0.                                     *)
MainOptionStep ==
    /\ pc = "main" /\ ~args.all /\ args.step <= Len(OPTION_ORDER)
    /\ IF OPTION_ORDER[args.step] = "custom"
       THEN \E custom \in CustomValues \ {<<0, "0.0">>}, mode \in Modes :
               MainRan(main_custom(OUTPUT, args.duration, custom, mode))
       ELSE MainRan(main_statement(OPTION_ORDER[args.step], OUTPUT, args.duration, FALSE))

(* The next "if args.<option>:" statement, its condition false: the option *)
(* was not given, or --custom is 0.0.                                      *)
MainOptionSkip ==
    /\ pc = "main" /\ ~args.all /\ args.step <= Len(OPTION_ORDER)
    /\ args' = [args EXCEPT !.step = @ + 1]
    /\ UNCHANGED <<pc, call, ret, files>>

(* main returns: after the last preset of --all, or after the last if *)
MainReturn ==
    /\ pc = "main"
    /\ args.step > Len(IF args.all THEN ALL_ORDER ELSE OPTION_ORDER)
    /\ pc' = "main_done"
    /\ UNCHANGED <<call, ret, files, args>>

Next ==
    \/ GenerateSineWave
    \/ GenerateBinauralBeat
    \/ GenerateIsochronicTone
    \/ GenerateFrequencySweep
    \/ GenerateLayeredFrequencies
    \/ GenerateOmTone
    \/ SaveWav
    \/ GenerateAllSolfeggio
    \/ GenerateAllAngelFrequencies
    \/ GenerateBinauralPresets
    \/ GenerateSchumannResonance
    \/ Generate432vs440
    \/ GenerateChakraMeditation
    \/ GenerateCustomFrequency
    \/ MainList
    \/ MainStart
    \/ MainAllStep
    \/ MainOptionStep
    \/ MainOptionSkip
    \/ MainReturn

Spec == Init /\ [][Next]_vars

----------------------------------------------------------------------------
(* Properties *)

(* The last call made was of op *)
Returned(op) == pc # "ready" /\ call.op = op

Abs(x) == IF x >= 0 THEN x ELSE -x

(* The pairs <<k, stored>> of a returned save_wav call: the float sample   *)
(* k / SampleDen of the input and the integer found at its place in the    *)
(* written file.                                                           *)
SavedSamples ==
    IF ~Returned("save_wav") THEN {}
    ELSE LET audio_data == call.args[2]
             written == files[call.args[1]].data
         IN IF audio_data.stereo
            THEN UNION {{<<audio_data.data[j][c], written.data[j][c]>> : c \in 1..2} :
                          j \in 1..audio_data.n}
            ELSE {<<audio_data.data[j], written.data[j]>> : j \in 1..audio_data.n}

(* -1 <= k / SampleDen <= 1 *)
InUnitRange(k) == -SampleDen <= k /\ k <= SampleDen

(* C1: every sample s in [-1, 1] saved by save_wav, mono or stereo, is     *)
(* stored as an integer nearest to s * 32767 (at most half a unit away).   *)
C1_StoresNearestInteger ==
    \A p \in SavedSamples :
        InUnitRange(p[1]) => 2 * Abs(SampleDen * p[2] - PCM_SCALE * p[1]) <= SampleDen

(* C7: every sample s in [-1, 1] saved by save_wav decodes (stored / 32767) *)
(* to within 1/32767 of s: |s * 32767 - stored| <= 1.                      *)
C7_RoundTripWithinOneLsb ==
    \A p \in SavedSamples :
        InUnitRange(p[1]) => Abs(PCM_SCALE * p[1] - SampleDen * p[2]) <= SampleDen

(* C7 witness: a saved in-range sample whose stored integer is not exactly *)
(* s * 32767, so that decoding loses something.                            *)
C7_Witness ==
    \E p \in SavedSamples : InUnitRange(p[1]) /\ SampleDen * p[2] # PCM_SCALE * p[1]

(* C3: save_wav returns normally, and every sample s outside [-1, 1] is    *)
(* stored as a 16-bit integer congruent modulo 2^16 to the integer part of *)
(* s * 32767; in particular it is not pinned to -32768 or 32767.           *)
C3_OutOfRangeWraps ==
    Returned("save_wav") =>
        /\ ret.status = "ok"
        /\ \A p \in SavedSamples :
              ~InUnitRange(p[1]) =>
                  /\ -(2^15) <= p[2] /\ p[2] < 2^15
                  /\ (int(PCM_SCALE * p[1], SampleDen) - p[2]) % (2^16) = 0

(* C3 witness: a saved sample above 1 whose stored integer is negative.    *)
C3_Witness ==
    \E p \in SavedSamples : p[1] > SampleDen /\ p[2] < 0

(* The duration argument of a returned generator call *)
Generators ==
    {"generate_sine_wave", "generate_binaural_beat", "generate_isochronic_tone",
     "generate_frequency_sweep", "generate_layered_frequencies", "generate_om_tone"}

DurationOfCall ==
    CASE call.op = "generate_sine_wave" -> call.args[2]
      [] call.op = "generate_layered_frequencies" -> call.args[2]
      [] call.op = "generate_om_tone" -> call.args[1]
      [] OTHER -> call.args[3]

(* floor(44100 * d) for a duration d >= 0 *)
FloorSamples(d) == (SAMPLE_RATE * d[1]) \div d[2]

(* C2: generate_sine_wave called with a duration <= 0 raises nothing and   *)
(* returns an empty buffer.                                                *)
C2_NonPositiveDurationGivesEmpty ==
    (Returned("generate_sine_wave") /\ call.args[2][1] <= 0) =>
        (ret.status = "ok" /\ ret.value.n = 0)

(* Whether the returned generator call was given a non-positive frequency: *)
(* the frequency of the sine wave, the base of the binaural beat, the      *)
(* carrier of the isochronic tone, any entry of the layered list.          *)
HasNonPositiveFrequency ==
    CASE call.op \in {"generate_sine_wave", "generate_binaural_beat",
                      "generate_isochronic_tone"} -> call.args[1] <= 0
      [] call.op = "generate_layered_frequencies" ->
             \E j \in 1..Len(call.args[1]) : call.args[1][j] <= 0
      [] OTHER -> FALSE

(* C4: a generator called with a non-positive frequency raises an error;   *)
(* it never returns a buffer.                                              *)
C4_NonPositiveFrequencyFailsFast ==
    (pc = "returned" /\ call.op \in Generators /\ HasNonPositiveFrequency) =>
        ret.status = "error"

(* C5: generate_om_tone with 0 < duration < 1 s returns a buffer of        *)
(* floor(44100 * duration) samples, and at every index lying both in the   *)
(* first 22050 samples and in the last 22050 samples the envelope is the   *)
(* fade-out ramp value.                                                    *)
C5_ShortOmToneFadeOutWins ==
    (Returned("generate_om_tone") /\ 0 < call.args[1][1]
                                  /\ call.args[1][1] < call.args[1][2]) =>
        /\ ret.status = "ok"
        /\ ret.value.n = FloorSamples(call.args[1])
        /\ LET n == ret.value.n
               fade == SAMPLE_RATE \div 2
           IN \A i \in 0..(n - 1) :
                 (i < fade /\ i >= n - fade) =>
                     At(ret.value.envelope, i) = <<(fade - 1) - (i - (n - fade)), fade - 1>>

(* C6: each of the six generators called with a duration d > 0 returns a   *)
(* buffer of exactly floor(44100 * d) samples per channel.                 *)
C6_AllGeneratorsSameLength ==
    (pc = "returned" /\ call.op \in Generators /\ DurationOfCall[1] > 0) =>
        (ret.status = "ok" /\ ret.value.n = FloorSamples(DurationOfCall))

(* C8: generate_binaural_beat(base, beat, duration, amplitude) ends as     *)
(* generate_sine_wave(base, duration, amplitude) does, and when it returns *)
(* it has as many rows as that sine wave has samples (floor(44100 *        *)
(* duration) of them for a duration >= 0), row i being the pair (sample i  *)
(* of generate_sine_wave(base, ...), sample i of                           *)
(* generate_sine_wave(base + beat, ...)), left first.                      *)
C8_BinauralChannelsAreSineWaves ==
    Returned("generate_binaural_beat") =>
        LET base == call.args[1]
            beat == call.args[2]
            duration == call.args[3]
            amplitude == call.args[4]
            left == generate_sine_wave(base, duration, amplitude)
            right == generate_sine_wave(base + beat, duration, amplitude)
        IN /\ ret.status = left.status
           /\ ret.status = "ok" =>
                 /\ duration[1] >= 0 => ret.value.n = FloorSamples(duration)
                 /\ left.value.n = ret.value.n /\ right.value.n = ret.value.n
                 /\ \A i \in 0..(ret.value.n - 1) :
                       At(ret.value, i) = <<At(left.value, i), At(right.value, i)>>

(* C8 witness: a binaural beat with a non-zero beat frequency that         *)
(* returned a non-empty buffer.                                            *)
C8_Witness ==
    /\ Returned("generate_binaural_beat")
    /\ call.args[2] # 0
    /\ ret.status = "ok"
    /\ ret.value.n > 1

(* Indices probed in a buffer of n samples: its ends, the ends of fade     *)
(* windows of the given width, and every ProbeStride-th index.             *)
Probes(n, width) ==
    ({0, 1, width - 1, width, n - width - 1, n - width, n \div 2, n - 2, n - 1}
       \cup {ProbeStride * q : q \in 0..(n \div ProbeStride)})
    \cap (0..(n - 1))

ChakraFileOrder ==
    <<"chakra_root_396hz.wav", "chakra_sacral_417hz.wav",
      "chakra_solar_plexus_528hz.wav", "chakra_heart_639hz.wav",
      "chakra_throat_741hz.wav", "chakra_third_eye_852hz.wav",
      "chakra_crown_963hz.wav">>

(* The directories the chakra meditation is written to *)
ChakraDirs == {OUT_DIR, path_join(OUTPUT, "chakras")}

RECURSIVE FilesLen(_, _, _)
FilesLen(dir, names, k) ==
    IF k = 0 THEN 0
    ELSE FilesLen(dir, names, k - 1) + files[path_join(dir, names[k])].data.n

(* C9: whenever a directory holds chakra_full_meditation.wav, it holds the *)
(* seven chakra files, the length of the full file is the sum of their     *)
(* lengths, and it holds, in the order root .. crown, the samples of each  *)
(* chakra's own file.                                                      *)
C9_FullMeditationIsConcatenation ==
    \A dir \in ChakraDirs :
        path_join(dir, "chakra_full_meditation.wav") \in DOMAIN files =>
            LET full == files[path_join(dir, "chakra_full_meditation.wav")].data
            IN /\ \A k \in 1..7 : path_join(dir, ChakraFileOrder[k]) \in DOMAIN files
               /\ full.n = FilesLen(dir, ChakraFileOrder, 7)
               /\ \A k \in 1..7 :
                     LET own == files[path_join(dir, ChakraFileOrder[k])].data
                     IN \A i \in Probes(own.n, 2 * SAMPLE_RATE) :
                           At(full, FilesLen(dir, ChakraFileOrder, k - 1) + i) = At(own, i)

(* C9 witness: the full meditation was written from segments whose two     *)
(* fades overlap.                                                          *)
C9_Witness ==
    /\ Returned("generate_chakra_meditation")
    /\ path_join(call.args[1], "chakra_full_meditation.wav") \in DOMAIN files
    /\ call.args[2] = 3

(* The comparison track of the last generate_432_vs_440 call *)
ComparisonFile == path_join(call.args[1], "tuning_432_440_comparison.wav")

(* C10: for an integer duration >= 10 the comparison track is written and  *)
(* consists of 2 * floor(duration / 10) segments of 220500 samples, the    *)
(* odd ones the 5 s sine wave at 432 Hz and the even ones at 440 Hz; it is *)
(* 441000 * floor(duration / 10) samples long, at most duration seconds.   *)
C10_ComparisonTrackAlternates ==
    (Returned("generate_432_vs_440") /\ call.args[2] >= 10) =>
        /\ ret.status = "ok"
        /\ ComparisonFile \in DOMAIN files
        /\ LET track == files[ComparisonFile].data
               rounds == call.args[2] \div 10
               segments == track.of.parts
           IN /\ Len(segments) = 2 * rounds
              /\ track.n = 441000 * rounds
              /\ track.n <= SAMPLE_RATE * call.args[2]
              /\ \A j \in 1..Len(segments) :
                    LET tone == generate_sine_wave(IF j % 2 = 1 THEN 43200 ELSE 44000,
                                                   <<5, 1>>, DEFAULT_AMPLITUDE).value
                    IN /\ segments[j].n = 220500
                       /\ \A i \in Probes(220500, 1) :
                             At(track, (j - 1) * 220500 + i) = <<"int16", At(tone, i)>>

(* C10 witness: a comparison track for a duration that is not a multiple   *)
(* of 10 seconds and holds more than one round.                            *)
C10_Witness ==
    /\ Returned("generate_432_vs_440")
    /\ call.args[2] >= 20 /\ call.args[2] % 10 # 0
    /\ ComparisonFile \in DOMAIN files

====
